---- MODULE Spec2Model ----
(***************************************************************************)
(* structMan: structural elements (ses/ses.py) publishing SOL200           *)
(* optimization cards (sol200/cards_opt.py) into one optimization model.   *)
(*                                                                         *)
(* Every handler of the source is one atomic action.  A handler is a pure  *)
(* operator over a record S holding the mutable program state (class       *)
(* counters, optmodel dictionaries, the structural elements) plus the      *)
(* exception that is propagating, if any; the action commits the record    *)
(* the handler returns, so that whatever a handler wrote before it raised  *)
(* stays written, as in Python.                                            *)
(***************************************************************************)
EXTENDS Integers, Sequences, FiniteSets, TLC

VARIABLES
    uid,        \* class -> the class attribute `uniqueid` of the card classes
    optmodel,   \* model.optmodel: dresps, dvars, dvprels, deqatns, dconstrs, dtables, dtable_prefixes
    se,         \* name -> the SE object of that name
    op2,        \* model.op2: None or the results object
    last,       \* the most recent call: operation, receiver, exception, return value, argument
    ncalls,     \* number of calls made so far
    issued      \* the (class, id) pairs in the order `self.id = Cls.uniqueid` ran

vars == <<uid, optmodel, se, op2, last, ncalls, issued>>

----------------------------------------------------------------------------
(* Bounds of the model *)

MaxCalls == 3
MaxDecl == 4
MaxReads == 2
MaxElems == 3
MaxSteps == 6

----------------------------------------------------------------------------
(* Python values *)

None == {}
Some(v) == {v}
Get(o) == CHOOSE v \in o : TRUE

\* d[k] = v on a dict
Put(d, k, v) == [x \in (DOMAIN d) \cup {k} |-> IF x = k THEN v ELSE d[x]]

EmptyDict == <<>>

NoExc == ""

\* raise: the handler stops here, S keeps what was written so far
Raise(S, e) == IF S.exc = NoExc THEN [S EXCEPT !.exc = e] ELSE S

Ok(S) == S.exc = NoExc

----------------------------------------------------------------------------
(* cards_opt.py: the card classes and their identifier counters *)

BaseId == 8000000

Classes == {"DRESP1", "DRESP2", "DRESP3", "DESVAR", "DVPREL1", "DVPREL2",
            "DLINK", "DEQATN", "DTABLE"}

\* self.id = Cls.uniqueid; Cls.uniqueid += 1
TakeId_noincrement(S, cls) ==
    [S EXCEPT !.issued = Append(@, <<cls, S.uid[cls]>>)]

TakeId(S, cls) ==
    [S EXCEPT !.uid[cls] = @ + 1, !.issued = Append(@, <<cls, S.uid[cls]>>)]

NoneToEmpty(x) == IF x = None THEN "" ELSE Get(x)

DRESP1(S, label, rtype, ptype, region, atta, attb, atti) ==
    [TakeId(S, "DRESP1") EXCEPT !.new =
        [cls |-> "DRESP1", id |-> S.uid["DRESP1"], label |-> label,
         rtype |-> rtype, ptype |-> ptype, region |-> NoneToEmpty(region),
         atta |-> NoneToEmpty(atta), attb |-> NoneToEmpty(attb),
         atti |-> NoneToEmpty(atti)]]

DRESP2(S, label, eqid, region) ==
    [TakeId(S, "DRESP2") EXCEPT !.new =
        [cls |-> "DRESP2", id |-> S.uid["DRESP2"], label |-> label,
         eqid |-> eqid, region |-> NoneToEmpty(region),
         dvars |-> <<>>, dtable |-> <<>>, dresp1 |-> <<>>]]

DRESP3(S, label, group, type, region) ==
    [TakeId(S, "DRESP3") EXCEPT !.new =
        [cls |-> "DRESP3", id |-> S.uid["DRESP3"], label |-> label,
         group |-> group, type |-> type, region |-> region,
         dvars |-> <<>>, dtable |-> <<>>, dresp1 |-> <<>>]]

DESVAR(S, label, xinit, xlb, xub) ==
    [TakeId(S, "DESVAR") EXCEPT !.new =
        [cls |-> "DESVAR", id |-> S.uid["DESVAR"], delx |-> "", ddval |-> "",
         label |-> label, xinit |-> xinit, xlb |-> xlb, xub |-> xub,
         dvprel1 |-> None, code |-> None]]

\* the two asserts run after the id was taken and the fields were set
DVPREL1(S, type, pid, pname, dvids, coefs, c0) ==
    LET S1 == [TakeId(S, "DVPREL1") EXCEPT !.new =
                 [cls |-> "DVPREL1", id |-> S.uid["DVPREL1"], type |-> type,
                  pid |-> pid, pname |-> pname, dvids |-> dvids,
                  coefs |-> coefs, c0 |-> c0]]
    IN  IF Len(dvids) # Len(coefs) \/ Len(dvids) = 0
        THEN Raise(S1, "AssertionError")
        ELSE S1

\* DVPREL2 is imported by ses.py from structMan.sol200; its class is not in
\* cards_opt.py.  It has its own `uniqueid` like every other card, and the
\* add_dvar / add_dtable list methods create_dvars calls on it.
DVPREL2(S, type, pid, pname, eqid) ==
    [TakeId(S, "DVPREL2") EXCEPT !.new =
        [cls |-> "DVPREL2", id |-> S.uid["DVPREL2"], type |-> type,
         pid |-> pid, pname |-> pname, eqid |-> eqid,
         dvars |-> <<>>, dtable |-> <<>>]]

DCONSTR(S, dcid, rid, lallow, uallow) ==
    [S EXCEPT !.new =
        [cls |-> "DCONSTR", dcid |-> dcid, rid |-> rid,
         lallow |-> lallow, uallow |-> uallow]]

\* a DLINK constructor without the two asserts
DLINK_unchecked(S, ddvid, idvs, cs, c0, cmult) ==
    [TakeId(S, "DLINK") EXCEPT !.new =
        [cls |-> "DLINK", id |-> S.uid["DLINK"], ddvid |-> ddvid,
         c0 |-> c0, cmult |-> cmult, idvs |-> idvs, cs |-> cs]]

DLINK(S, ddvid, idvs, cs, c0, cmult) ==
    LET S1 == [TakeId(S, "DLINK") EXCEPT !.new =
                 [cls |-> "DLINK", id |-> S.uid["DLINK"], ddvid |-> ddvid,
                  c0 |-> c0, cmult |-> cmult, idvs |-> idvs, cs |-> cs]]
    IN  IF Len(idvs) # Len(cs) \/ Len(idvs) = 0
        THEN Raise(S1, "AssertionError")
        ELSE S1

DEQATN(S, eq) ==
    [TakeId(S, "DEQATN") EXCEPT !.new =
        [cls |-> "DEQATN", id |-> S.uid["DEQATN"], eq |-> eq]]

DTABLE(S, input_dict) ==
    [TakeId(S, "DTABLE") EXCEPT !.new =
        [cls |-> "DTABLE", id |-> S.uid["DTABLE"], input_dict |-> input_dict]]

\* obj.id: an AttributeError when __init__ never set it
HasId(obj) == "id" \in DOMAIN obj

----------------------------------------------------------------------------
(* Python strings whose length matters are sequences of characters *)

Digit(d) == CASE d = 0 -> "0" [] d = 1 -> "1" [] d = 2 -> "2" [] d = 3 -> "3"
              [] d = 4 -> "4" [] d = 5 -> "5" [] d = 6 -> "6" [] d = 7 -> "7"
              [] d = 8 -> "8" [] d = 9 -> "9"

\* str(n) for an int n >= 0
RECURSIVE str(_)
str(n) == IF n < 10 THEN <<Digit(n)>> ELSE str(n \div 10) \o <<Digit(n % 10)>>

RECURSIVE Fill(_, _)
Fill(c, k) == IF k <= 0 THEN <<>> ELSE <<c>> \o Fill(c, k - 1)

\* s.rjust(width, fillchar)
rjust(s, width, fillchar) == Fill(fillchar, width - Len(s)) \o s

STRb == <<"S", "T", "R", "b">>
STRh == <<"S", "T", "R", "h">>
STRE == <<"S", "T", "R", "E">>
STRnu == <<"S", "T", "R", "n", "u">>

----------------------------------------------------------------------------
(* ses.py: class SE and its subclasses *)

SE1DViews == {"bending_moment_a1", "bending_moment_a2", "bending_moment_b1",
              "bending_moment_b2", "shear1", "shear2", "axial", "torque"}
SE2DViews == {"mx", "my", "mxy", "bmx", "bmy", "bmxy", "tx", "ty"}

SE1DClasses == {"SE1D", "Flange1D", "InnerFlange", "OuterFlange", "ShearClipSkin"}
FlangeClasses == {"Flange1D", "InnerFlange", "OuterFlange"}
SE2DClasses == {"SE2D", "Panel", "Web", "ShearClipFrame"}

\* SE.__init__ followed by the subclass constructors up to `cls`
SE_init(cls, name, eids) ==
    [cls |-> cls, name |-> name, eids |-> eids, elements |-> None,
     dresps |-> <<>>, dvars |-> EmptyDict, dvprels |-> <<>>, deqatns |-> <<>>,
     dtables |-> EmptyDict, dlinks |-> <<>>, dconstrs |-> <<>>,
     all_constraints |->
        IF cls \in SE1DClasses THEN <<"stress_tension", "stress_compression">>
        ELSE IF cls = "Panel" THEN <<"vonMises">> ELSE <<>>,
     constraints |->
        IF cls \in SE1DClasses
        THEN [k \in {"stress_tension", "stress_compression"} |-> 1]
        ELSE IF cls = "Panel" THEN [k \in {"vonMises"} |-> 1] ELSE EmptyDict,
     forces |-> None,
     views |-> IF cls \in SE1DClasses THEN [v \in SE1DViews |-> None]
               ELSE IF cls \in SE2DClasses THEN [v \in SE2DViews |-> None]
               ELSE EmptyDict,
     dvars_created |-> FALSE]

\* add_dtable with the collision counter advanced before the length check
add_dtable_countfirst(S, n, key, value) ==
    LET present == key \in DOMAIN S.om.dtables
        counter == IF key \in DOMAIN S.om.dtable_prefixes
                   THEN S.om.dtable_prefixes[key] + 1 ELSE 0
        S1 == IF present THEN [S EXCEPT !.om.dtable_prefixes = Put(@, key, counter)] ELSE S
        newkey == IF present THEN key \o rjust(str(counter), 8 - Len(key), "0") ELSE key
    IN  IF ~Ok(S) THEN S
        ELSE IF present /\ Len(key) >= 8 THEN Raise(S1, "ValueError")
        ELSE IF Len(newkey) > 8 /\ present THEN Raise(S1, "ValueError")
        ELSE IF key \in DOMAIN S1.se[n].dtables THEN Raise(S1, "BareRaise")
        ELSE [S1 EXCEPT !.se[n].dtables = Put(@, key, <<newkey, value>>),
                        !.om.dtables = Put(@, newkey, value),
                        !.ret = Some(newkey)]

\* SE.add_dtable(key, value)
add_dtable(S, n, key, value) ==
    LET origkey == key
        present == key \in DOMAIN S.om.dtables
        tooLong == present /\ Len(key) >= 8
        counter == IF key \in DOMAIN S.om.dtable_prefixes
                   THEN S.om.dtable_prefixes[key] + 1 ELSE 0
        S1 == IF present /\ ~tooLong
              THEN [S EXCEPT !.om.dtable_prefixes = Put(@, key, counter)]
              ELSE S
        sufix == str(counter)
        newkey == IF present /\ ~tooLong
                  THEN key \o rjust(sufix, 8 - Len(key), "0")
                  ELSE key
    IN  IF ~Ok(S) THEN S
        ELSE IF tooLong THEN Raise(S, "ValueError")
        ELSE IF Len(newkey) > 8 /\ present THEN Raise(S1, "ValueError")
        ELSE IF origkey \in DOMAIN S1.se[n].dtables THEN Raise(S1, "BareRaise")
        ELSE [S1 EXCEPT !.se[n].dtables = Put(@, origkey, <<newkey, value>>),
                        !.om.dtables = Put(@, newkey, value),
                        !.ret = Some(newkey)]

\* SE.add_dresp(dresp)
add_dresp(S, n, dresp) ==
    IF ~Ok(S) THEN S
    ELSE [S EXCEPT !.se[n].dresps = Append(@, dresp),
                   !.om.dresps = Put(@, dresp.id, dresp)]

\* SE.add_deqatn(deqatn)
add_deqatn(S, n, deqatn) ==
    IF ~Ok(S) THEN S
    ELSE [S EXCEPT !.se[n].deqatns = Append(@, deqatn),
                   !.om.deqatns = Put(@, deqatn.id, deqatn)]

\* add_dvar without the duplicate-label guard
add_dvar_overwrite(S, n, dvar) ==
    IF ~Ok(S) THEN S
    ELSE [S EXCEPT !.se[n].dvars = Put(@, dvar.label, dvar),
                   !.om.dvars = Put(@, dvar.id, dvar)]

\* SE.add_dvar(dvar)
add_dvar(S, n, dvar) ==
    IF ~Ok(S) THEN S
    ELSE IF dvar.label \in DOMAIN S.se[n].dvars THEN Raise(S, "BareRaise")
    ELSE [S EXCEPT !.se[n].dvars = Put(@, dvar.label, dvar),
                   !.om.dvars = Put(@, dvar.id, dvar)]

\* SE.add_dvprel(dvprel)
add_dvprel(S, n, dvprel) ==
    IF ~Ok(S) THEN S
    ELSE [S EXCEPT !.se[n].dvprels = Append(@, dvprel),
                   !.om.dvprels = Put(@, dvprel.id, dvprel)]

\* SE.add_constraint(dcid, dresp, lb, ub): DCONSTR.__init__ sets dcid, rid,
\* lallow and uallow and no id, so `dconstr.id` raises after the append
add_constraint(S, n, dcid, dresp, lb, ub) ==
    LET S0 == DCONSTR(S, dcid, dresp.id, lb, ub)
        dconstr == S0.new
        S1 == [S0 EXCEPT !.se[n].dconstrs = Append(@, dconstr)]
    IN  IF ~Ok(S) THEN S
        ELSE IF ~HasId(dconstr) THEN Raise(S1, "AttributeError")
        ELSE [S1 EXCEPT !.om.dconstrs = Put(@, dconstr.id, dconstr)]

----------------------------------------------------------------------------
(* ses.py: geometry queries and design-variable creation *)

\* a resolved finite element: e.eid, e.type, e.pid.pid, e.pid.type, and the
\* positions e.get_node_positions() returns
Element(eid, type, pid, ptype, nodes) ==
    [eid |-> eid, type |-> type, pid |-> [pid |-> pid, type |-> ptype], nodes |-> nodes]

RECURSIVE SeqSum(_)
SeqSum(q) == IF q = <<>> THEN 0 ELSE q[1] + SeqSum(Tail(q))

RECURSIVE SeqProd(_)
SeqProd(q) == IF q = <<>> THEN 1 ELSE q[1] * SeqProd(Tail(q))

Axes == 1..3

\* K times e.get_node_positions().mean(axis=0)[a], for K a common multiple
\* of the node counts
ScaledCentroid(e, a, K) ==
    (SeqSum([i \in DOMAIN e.nodes |-> e.nodes[i][a]]) * K) \div Len(e.nodes)

\* ((x - cg)**2).sum(axis=1)[i], times (K * len(els))**2
ScaledDist2(els, i) ==
    LET K == SeqProd([j \in DOMAIN els |-> Len(els[j].nodes)])
        n == Len(els)
        tot(a) == SeqSum([j \in DOMAIN els |-> ScaledCentroid(els[j], a, K)])
        d(a) == n * ScaledCentroid(els[i], a, K) - tot(a)
    IN  SeqSum([a \in Axes |-> d(a) * d(a)])

\* an argmin that returns the last index of the minimum
argmin_last(els) ==
    CHOOSE i \in DOMAIN els :
        /\ \A j \in DOMAIN els : ScaledDist2(els, i) <= ScaledDist2(els, j)
        /\ \A j \in DOMAIN els : j > i => ScaledDist2(els, j) > ScaledDist2(els, i)

\* np.argmin: the first index of the minimum (1-based here)
argmin(els) ==
    CHOOSE i \in DOMAIN els :
        /\ \A j \in DOMAIN els : ScaledDist2(els, i) <= ScaledDist2(els, j)
        /\ \A j \in DOMAIN els : j < i => ScaledDist2(els, j) > ScaledDist2(els, i)

\* SE.get_central_element(): None, or Some(the element)
get_central_element(o) ==
    IF o.elements = None THEN None
    ELSE LET els == Get(o.elements) IN Some(els[argmin(els)])

\* str.lower() on the profile names in use
lower(p) == CASE p = "T" -> "t" [] p = "T_B" -> "t_b" [] OTHER -> p

\* output_codes_SOL200.OUTC[rtype][eltype][name], kept symbolic
OUTC(rtype, eltype, name) == <<rtype, eltype, name>>

EqA == "A(t,b) = t*b"
EqI1 == "I1(t,b) = b*t**3/12."
EqI2 == "I2(t,b) = t*b**3/12. + t*b*(b/2.)**2"
EqJ == "I1(t,b) = b*t**3/12.;I2 = t*b**3/12. + t*b*(b/2.)**2;J = I1 + I2"
EqBuckling == "bf(dim1,dim3,dim2,E,nu,FA) = dim1-dim3/2.;bw = dim2-dim3;tw = dim3;x = bf/bw;Kw = -206.08*x**5 + 588.3*x**4 - 596.43*x**3 + 249.62*x**2 -41.924*x + 6.4545;SIGMAcr = Kw*PI(1)**2*E*tw**2/(12.*(1.-nu**2)*bw**2);MS = SIGMAcr/ABS(MIN(FA, 0.0001))-1.;"

\* a block of create_dvars that passes the variables and drops the constants
EquationRelation_noconstants(S, n, ptype, pid, pname, eq, dvarids, dtablekeys) ==
    LET S1 == DEQATN(S, eq)
        deqatn == S1.new
        S2 == add_deqatn(S1, n, deqatn)
        S3 == DVPREL2(S2, ptype, pid, pname, deqatn.id)
        dvprel == [S3.new EXCEPT !.dvars = @ \o dvarids]
    IN  IF ~Ok(S) THEN S ELSE add_dvprel(S3, n, dvprel)

\* one block of create_dvars: DEQATN(eq); add_deqatn; DVPREL2(ptype, pid,
\* pname, eqid); dvprel.add_dvar(..) / dvprel.add_dtable(..); add_dvprel
EquationRelation(S, n, ptype, pid, pname, eq, dvarids, dtablekeys) ==
    LET S1 == DEQATN(S, eq)
        deqatn == S1.new
        S2 == add_deqatn(S1, n, deqatn)
        S3 == DVPREL2(S2, ptype, pid, pname, deqatn.id)
        dvprel == [S3.new EXCEPT !.dvars = @ \o dvarids, !.dtable = @ \o dtablekeys]
    IN  IF ~Ok(S) THEN S ELSE add_dvprel(S3, n, dvprel)

\* the four PBAR blocks: A, I1, I2, J
PBarRelations(S, n, ptype, pid, dvarids, dtablekeys) ==
    LET S1 == EquationRelation(S, n, ptype, pid, "A", EqA, dvarids, dtablekeys)
        S2 == EquationRelation(S1, n, ptype, pid, "I1", EqI1, dvarids, dtablekeys)
        S3 == EquationRelation(S2, n, ptype, pid, "I2", EqI2, dvarids, dtablekeys)
    IN  EquationRelation(S3, n, ptype, pid, "J", EqJ, dvarids, dtablekeys)

\* create_dvars, profile 't'
create_dvars_t(S, n, pid, ptype) ==
    LET o == S.se[n]
        S1 == DESVAR(S, "STRBt", o.t, o.t_lb, o.t_ub)
        dvar_t == S1.new
        S2 == add_dvar(S1, n, dvar_t)
        S3 == add_dtable(S2, n, STRb, o.b)
        dtable_b == Get(S3.ret)
    IN  IF ~Ok(S3) THEN S3
        ELSE IF ptype = "PBAR"
        THEN PBarRelations([S3 EXCEPT !.ret = None], n, ptype, pid, <<dvar_t.id>>, <<dtable_b>>)
        ELSE Raise([S3 EXCEPT !.ret = None], "NotImplementedError")

\* create_dvars, profile 't_b'
create_dvars_t_b(S, n, pid, ptype) ==
    LET o == S.se[n]
        S1 == DESVAR(S, "STRBt", o.t, o.t_lb, o.t_ub)
        dvar_t == S1.new
        S2 == DESVAR(S1, "STRBb", o.b, o.b_lb, o.b_ub)
        dvar_h == S2.new
        S3 == add_dvar(S2, n, dvar_t)
        S4 == add_dvar(S3, n, dvar_h)
    IN  IF ~Ok(S4) THEN S4
        ELSE IF ptype = "PBAR"
        THEN PBarRelations(S4, n, ptype, pid, <<dvar_t.id, dvar_h.id>>, <<>>)
        ELSE Raise(S4, "NotImplementedError")

\* create_dvars without the dvars_created guard
create_dvars_unguarded(S, n) ==
    LET o == S.se[n]
        S1 == [S EXCEPT !.se[n].dvars_created = TRUE]
        e0 == Get(o.elements)[1]
    IN  IF ~Ok(S) THEN S
        ELSE IF o.cls \notin FlangeClasses THEN Raise(S, "AttributeError")
        ELSE IF o.elements = None THEN Raise(S1, "TypeError")
        ELSE IF Get(o.elements) = <<>> THEN Raise(S1, "IndexError")
        ELSE IF lower(o.profile) = "t" THEN create_dvars_t(S1, n, e0.pid.pid, e0.pid.type)
        ELSE IF lower(o.profile) = "t_b" THEN create_dvars_t_b(S1, n, e0.pid.pid, e0.pid.type)
        ELSE S1

\* Flange1D.create_dvars(); only Flange1D and its subclasses define it
create_dvars(S, n) ==
    LET o == S.se[n]
        S1 == [S EXCEPT !.se[n].dvars_created = TRUE]
        e0 == Get(o.elements)[1]
    IN  IF ~Ok(S) THEN S
        ELSE IF o.cls \notin FlangeClasses THEN Raise(S, "AttributeError")
        ELSE IF o.dvars_created THEN S
        ELSE IF o.elements = None THEN Raise(S1, "TypeError")
        ELSE IF Get(o.elements) = <<>> THEN Raise(S1, "IndexError")
        ELSE IF lower(o.profile) = "t" THEN create_dvars_t(S1, n, e0.pid.pid, e0.pid.type)
        ELSE IF lower(o.profile) = "t_b" THEN create_dvars_t_b(S1, n, e0.pid.pid, e0.pid.type)
        ELSE S1

----------------------------------------------------------------------------
(* ses.py: constraint generation *)

\* SE1D.constrain_stress(Fy)
constrain_stress(S, n, Fy) ==
    LET S1 == create_dvars(S, n)
        o == S1.se[n]
        central == get_central_element(o)
        eid == Get(central).eid
        eltype == Get(o.elements)[1].type
        kind == IF Fy > 0 THEN "stress_tension" ELSE "stress_compression"
        dcid == o.constraints[kind]
        atta == IF Fy > 0 THEN OUTC("STRESS", "CBAR", "End A maximum")
                ELSE OUTC("STRESS", "CBAR", "End A minimum")
        label == IF Fy > 0 THEN "STRmaxS" ELSE "STRminS"
        S2 == DRESP1(S1, label, "STRESS", "ELEM", None, Some(atta), None, Some(eid))
        dresp1 == S2.new
        S3 == add_dresp(S2, n, dresp1)
    IN  IF ~Ok(S1) THEN S1
        ELSE IF central = None THEN Raise(S1, "AttributeError")
        ELSE IF kind \notin DOMAIN o.constraints THEN Raise(S1, "KeyError")
        ELSE IF eltype # "CBAR" THEN Raise(S1, "NotImplementedError")
        ELSE IF Fy > 0 THEN add_constraint(S3, n, dcid, dresp1, None, Some(Fy))
        ELSE add_constraint(S3, n, dcid, dresp1, Some(Fy), None)

abs(x) == IF x < 0 THEN -x ELSE x

\* SE1D.constrain_stress_tension(Fty)
constrain_stress_tension(S, n, Fty) ==
    constrain_stress(create_dvars(S, n), n, abs(Fty))

\* SE1D.constrain_stress_compression(Fcy)
constrain_stress_compression(S, n, Fcy) ==
    constrain_stress(create_dvars(S, n), n, -abs(Fcy))

\* Panel.constrain_vonMises(Fcy), written with the response registered before
\* the central element is looked up
constrain_vonMises_eager(S, n, Fcy) ==
    LET o == S.se[n]
        central == get_central_element(o)
        S1 == DRESP1(S, "PANZ1VM", "STRESS", "ELEM", None,
                     Some(OUTC("STRESS", "CQUAD4", "von Mises or maximum shear at Z1")),
                     None, Some(0))
        S2 == add_dresp(S1, n, S1.new)
    IN  IF ~Ok(S) THEN S
        ELSE IF central = None THEN Raise(S2, "AttributeError")
        ELSE add_constraint(S2, n, o.constraints["vonMises"], S1.new, None, Some(Fcy))

\* Panel.constrain_vonMises(Fcy)
constrain_vonMises(S, n, Fcy) ==
    LET o == S.se[n]
        central == get_central_element(o)
        eid == Get(central).eid
        dcid == o.constraints["vonMises"]
        S1 == DRESP1(S, "PANZ1VM", "STRESS", "ELEM", None,
                     Some(OUTC("STRESS", "CQUAD4", "von Mises or maximum shear at Z1")),
                     None, Some(eid))
        S2 == add_dresp(S1, n, S1.new)
        S3 == add_constraint(S2, n, dcid, S1.new, None, Some(Fcy))
        S4 == DRESP1(S3, "PANZ2VM", "STRESS", "ELEM", None,
                     Some(OUTC("STRESS", "CQUAD4", "von Mises or maximum shear at Z2")),
                     None, Some(eid))
        S5 == add_dresp(S4, n, S4.new)
    IN  IF ~Ok(S) THEN S
        ELSE IF o.cls # "Panel" THEN Raise(S, "AttributeError")
        ELSE IF central = None THEN Raise(S, "AttributeError")
        ELSE IF "vonMises" \notin DOMAIN o.constraints THEN Raise(S, "KeyError")
        ELSE IF ~Ok(S3) THEN S3
        ELSE add_constraint(S5, n, dcid, S4.new, None, Some(Fcy))

\* the first key of `keys` that dict d lacks, as a KeyError; None when all are there
MissingKey(d, keys) ==
    IF \E i \in DOMAIN keys : keys[i] \notin DOMAIN d THEN Some("KeyError") ELSE None

\* Flange1D.constrain_buckling, one profile branch: the design variables
\* and constants it reads, in the order of the source, and the argument
\* lists of the DRESP2
constrain_buckling_branch(S, n, ms, dvlabels, dtkeys, dvorder, dtorder) ==
    LET S1 == DEQATN(S, EqBuckling)
        deqatn == S1.new
        S2 == add_deqatn(S1, n, deqatn)
        o == S2.se[n]
        eltype == Get(o.elements)[1].type
        central == get_central_element(o)
        S3 == DRESP1(S2, "STRZFA", "STRESS", "ELEM", None,
                     Some(OUTC("STRESS", "CBAR", "Axial")), Some(""),
                     Some(Get(central).eid))
        dresp_FA == S3.new
        S4 == add_dresp(S3, n, dresp_FA)
        S5 == DRESP2(S4, "STRBUCK", deqatn.id, None)
        dresp2 == [S5.new EXCEPT
                      !.dvars = [i \in DOMAIN dvorder |-> o.dvars[dvorder[i]].id],
                      !.dtable = [i \in DOMAIN dtorder |-> o.dtables[dtorder[i]][1]],
                      !.dresp1 = <<dresp_FA.id>>]
        S6 == add_dresp(S5, n, dresp2)
    IN  IF MissingKey(o.dvars, dvlabels) # None THEN Raise(S2, "KeyError")
        ELSE IF MissingKey(o.dtables, dtkeys) # None THEN Raise(S2, "KeyError")
        ELSE IF eltype # "CBAR" THEN Raise(S2, "NotImplementedError")
        ELSE IF central = None THEN Raise(S2, "AttributeError")
        ELSE IF "buckling" \notin DOMAIN o.constraints THEN Raise(S6, "KeyError")
        ELSE add_constraint(S6, n, o.constraints["buckling"], dresp2, Some(ms), None)

\* Flange1D.constrain_buckling(method, ms)
constrain_buckling(S, n, method, ms) ==
    LET S1 == create_dvars(S, n)
        o == S1.se[n]
    IN  IF ~Ok(S1) THEN S1
        ELSE IF o.elements = None THEN Raise(S1, "TypeError")
        ELSE IF method = 1 /\ lower(o.profile) = "t"
        THEN constrain_buckling_branch(S1, n, ms, <<"STRZt", "STRZb">>,
                                       <<STRh, STRE, STRnu>>,
                                       <<"STRZb", "STRZt">>, <<STRh, STRE, STRnu>>)
        ELSE IF method = 1 /\ lower(o.profile) = "t_b"
        THEN constrain_buckling_branch(S1, n, ms, <<"STRZt", "STRZb", "STRZh">>,
                                       <<STRE, STRnu>>,
                                       <<"STRZb", "STRZt", "STRZh">>, <<STRE, STRnu>>)
        ELSE S1

----------------------------------------------------------------------------
(* ses.py: force extraction *)

NumVectors == 8

\* np.zeros((num_vectors, len(eids), num_subcases))
zeros(nv, ne, ns) == [c \in 0..(nv - 1) |-> [j \in 1..ne |-> [i \in 1..ns |-> 0]]]

\* np.in1d(a, b): the mask of the entries of a that occur in b
in1d(a, b) == [k \in DOMAIN a |-> \E m \in DOMAIN b : b[m] = a[k]]

\* the indices a boolean mask selects, in increasing order
Selected(mask) == SelectSeq([k \in DOMAIN mask |-> k], LAMBDA k : mask[k])

\* itemgetter(*eids)(d) for two or more eids: the tuple of d[eid] in the order of eids
itemgetter(eids, d) == [k \in DOMAIN eids |-> d[eids[k]]]

\* self.forces[c, :, i] = row
SetRow(f, c, i, row) ==
    [f EXCEPT ![c] = [j \in DOMAIN f[c] |-> [f[c][j] EXCEPT ![i] = row[j]]]]

\* self.forces[c, i_panel, i] = vals: the k-th selected position takes vals[k]
SetMasked(f, c, i, i_panel, vals) ==
    LET pos == Selected(i_panel)
    IN  [d \in DOMAIN f |-> [j \in DOMAIN f[d] |->
            IF d = c /\ i_panel[j]
            THEN [f[d][j] EXCEPT ![i] = vals[CHOOSE k \in DOMAIN pos : pos[k] = j]]
            ELSE f[d][j]]]

\* self.forces[:, i_panel, i] = data[-1, i_op2, :].swapaxes(-1, -2)
ScatterLast(f, i, i_panel, i_op2, data) ==
    LET latest == data[Len(data)]
        rows == [k \in DOMAIN Selected(i_op2) |-> latest[Selected(i_op2)[k]]]
        pos == Selected(i_panel)
    IN  [c \in DOMAIN f |-> [j \in DOMAIN f[c] |->
            IF i_panel[j]
            THEN [f[c][j] EXCEPT ![i] = rows[CHOOSE k \in DOMAIN pos : pos[k] = j][c + 1]]
            ELSE f[c][j]]]

\* the eight named views of SE1D / SE2D: forces[0] .. forces[7]
SE1DViewIndex == [bending_moment_a1 |-> 0, bending_moment_a2 |-> 1,
                  bending_moment_b1 |-> 2, bending_moment_b2 |-> 3,
                  shear1 |-> 4, shear2 |-> 5, axial |-> 6, torque |-> 7]
SE2DViewIndex == [mx |-> 0, my |-> 1, mxy |-> 2, bmx |-> 3, bmy |-> 4,
                  bmxy |-> 5, tx |-> 6, ty |-> 7]

SetViews(S, n, index) ==
    LET f == Get(S.se[n].forces)
    IN  IF \E v \in DOMAIN index : index[v] \notin DOMAIN f THEN Raise(S, "IndexError")
        ELSE [S EXCEPT !.se[n].views = [v \in DOMAIN index |-> Some(f[index[v]])]]

\* SE1D.read_forces, object-map layout
read_forces_1d_objmap(S, n, op) ==
    LET eids == S.se[n].eids
        subcases == op.subcases
        forces == op.cbar_force
        S1 == [S EXCEPT !.se[n].forces = Some(zeros(NumVectors, Len(eids), Len(subcases)))]
        body(f, i) ==
            LET data == forces[subcases[i]]
                tmpA == itemgetter(eids, data.bendingMomentA)
                tmpB == itemgetter(eids, data.bendingMomentB)
                tmpS == itemgetter(eids, data.shear)
                f0 == SetRow(f, 0, i, [j \in DOMAIN eids |-> tmpA[j][1]])
                f1 == SetRow(f0, 1, i, [j \in DOMAIN eids |-> tmpA[j][2]])
                f2 == SetRow(f1, 2, i, [j \in DOMAIN eids |-> tmpB[j][1]])
                f3 == SetRow(f2, 3, i, [j \in DOMAIN eids |-> tmpB[j][2]])
                f4 == SetRow(f3, 4, i, [j \in DOMAIN eids |-> tmpS[j][1]])
                f5 == SetRow(f4, 5, i, [j \in DOMAIN eids |-> tmpS[j][2]])
                f6 == SetRow(f5, 6, i, itemgetter(eids, data.axial))
            IN  SetRow(f6, 7, i, itemgetter(eids, data.torque))
    IN  IF eids = <<>> THEN Raise(S1, "TypeError")
        ELSE IF \E k \in DOMAIN eids : eids[k] \notin DOMAIN forces[subcases[1]].bendingMomentA
        THEN Raise(S1, "KeyError")
        \* one eid: itemgetter returns the pair itself and zip(*pair) gets two floats
        ELSE IF Len(eids) = 1 THEN Raise(S1, "TypeError")
        ELSE [S1 EXCEPT !.se[n].forces =
                 Some(LET loop[i \in 0..Len(subcases)] ==
                         IF i = 0 THEN Get(S1.se[n].forces) ELSE body(loop[i - 1], i)
                     IN  loop[Len(subcases)])]

\* one vectorized table scattered into f: i_op2, i_panel and the loop over subcases
ScatterTable(f, eids, subcases, table) ==
    LET force1 == table[subcases[1]]
        i_op2 == in1d(force1.element, eids)
        i_panel == in1d(eids, force1.element)
        body(g, i) == ScatterLast(g, i, i_panel, i_op2, table[subcases[i]].data)
    IN  LET loop[i \in 0..Len(subcases)] ==
                         IF i = 0 THEN f ELSE body(loop[i - 1], i)
                     IN  loop[Len(subcases)]

\* the masks select as many rows as positions (else numpy raises ValueError)
ShapesMatch(eids, element) ==
    Len(Selected(in1d(element, eids))) = Len(Selected(in1d(eids, element)))

\* SE1D.read_forces, vectorized layout
read_forces_1d_vectorized(S, n, op) ==
    LET eids == S.se[n].eids
        subcases == op.subcases
        forces == op.cbar_force
        force1 == forces[subcases[1]]
        num_vectors == Len(force1.data[1][1])
        S1 == [S EXCEPT !.se[n].forces = Some(zeros(num_vectors, Len(eids), Len(subcases)))]
    IN  IF ~ShapesMatch(eids, force1.element) THEN Raise(S1, "ValueError")
        ELSE [S1 EXCEPT !.se[n].forces =
                 Some(ScatterTable(Get(S1.se[n].forces), eids, subcases, forces))]

\* SE1D.read_forces()
read_forces_1d(S, n) ==
    LET op == Get(S.op2)
        R == IF op.is_vectorized THEN read_forces_1d_vectorized(S, n, op)
             ELSE read_forces_1d_objmap(S, n, op)
    IN  IF ~Ok(S) THEN S
        \* prints 'No op2 file defined' and goes on to self.model.op2.subcases
        ELSE IF S.op2 = None THEN Raise(S, "AttributeError")
        ELSE IF op.subcases = <<>> THEN Raise(S, "IndexError")
        ELSE IF ~Ok(R) THEN R
        ELSE SetViews(R, n, SE1DViewIndex)

\* SE2D.read_forces, object-map layout: one of the two tables
ObjMapTable2D(f, eids, subcases, table) ==
    LET keys == DOMAIN table[subcases[1]].mx
        i_panel == [k \in DOMAIN eids |-> eids[k] \in keys]
        tmp == [k \in DOMAIN Selected(i_panel) |-> eids[Selected(i_panel)[k]]]
        body(g, i) ==
            LET data == table[subcases[i]]
                g0 == SetMasked(g, 0, i, i_panel, itemgetter(tmp, data.mx))
                g1 == SetMasked(g0, 1, i, i_panel, itemgetter(tmp, data.my))
                g2 == SetMasked(g1, 2, i, i_panel, itemgetter(tmp, data.mxy))
                g3 == SetMasked(g2, 3, i, i_panel, itemgetter(tmp, data.bmx))
                g4 == SetMasked(g3, 4, i, i_panel, itemgetter(tmp, data.bmy))
                g5 == SetMasked(g4, 5, i, i_panel, itemgetter(tmp, data.bmxy))
                g6 == SetMasked(g5, 6, i, i_panel, itemgetter(tmp, data.tx))
            IN  SetMasked(g6, 7, i, i_panel, itemgetter(tmp, data.ty))
    IN  IF DOMAIN table = {} \/ tmp = <<>> THEN f
        ELSE LET loop[i \in 0..Len(subcases)] ==
                         IF i = 0 THEN f ELSE body(loop[i - 1], i)
                     IN  loop[Len(subcases)]

\* SE2D.read_forces()
read_forces_2d(S, n) ==
    LET op == Get(S.op2)
        eids == S.se[n].eids
        subcases == op.subcases
        z == zeros(NumVectors, Len(eids), Len(subcases))
        fobj == ObjMapTable2D(ObjMapTable2D(z, eids, subcases, op.cquad4_force),
                              eids, subcases, op.ctria3_force)
        nv == Len(op.cquad4_force[subcases[1]].data[1][1])
        zv == zeros(nv, Len(eids), Len(subcases))
        fvec == ScatterTable(ScatterTable(zv, eids, subcases, op.cquad4_force),
                             eids, subcases, op.ctria3_force)
        S1 == [S EXCEPT !.se[n].forces = Some(IF op.is_vectorized THEN zv ELSE z)]
    IN  IF ~Ok(S) THEN S
        \* prints 'No op2 file defined' and returns
        ELSE IF S.op2 = None THEN S
        ELSE IF subcases = <<>> /\ (op.is_vectorized \/ DOMAIN op.cquad4_force # {})
        THEN Raise(IF op.is_vectorized THEN S ELSE S1, "IndexError")
        ELSE IF op.is_vectorized
                /\ (\/ ~ShapesMatch(eids, op.cquad4_force[subcases[1]].element)
                    \/ ~ShapesMatch(eids, op.ctria3_force[subcases[1]].element))
        THEN Raise(S1, "ValueError")
        ELSE SetViews([S EXCEPT !.se[n].forces = Some(IF op.is_vectorized THEN fvec ELSE fobj)],
                      n, SE2DViewIndex)

\* read_forces() as the class of the element defines it
read_forces(S, n) ==
    IF S.se[n].cls \in SE1DClasses THEN read_forces_1d(S, n)
    ELSE IF S.se[n].cls \in SE2DClasses THEN read_forces_2d(S, n)
    ELSE Raise(S, "AttributeError")

----------------------------------------------------------------------------
(* The program state a handler runs on, and the commit of what it returns *)

Cur == [uid |-> uid, om |-> optmodel, se |-> se, issued |-> issued, op2 |-> op2,
        exc |-> NoExc, new |-> None, ret |-> None]

Commit(R, op, n, arg) ==
    /\ uid' = R.uid
    /\ optmodel' = R.om
    /\ se' = R.se
    /\ issued' = R.issued
    /\ last' = [op |-> op, se |-> n, exc |-> R.exc, ret |-> R.ret, arg |-> arg]
    /\ ncalls' = ncalls + 1
    /\ UNCHANGED op2

OptModel_init ==
    [dresps |-> EmptyDict, dvars |-> EmptyDict, dvprels |-> EmptyDict,
     deqatns |-> EmptyDict, dconstrs |-> EmptyDict, dtables |-> EmptyDict,
     dtable_prefixes |-> EmptyDict]

NoCall == [op |-> "", se |-> "", exc |-> NoExc, ret |-> None, arg |-> None]

InitCommon ==
    /\ uid = [c \in Classes |-> BaseId]
    /\ optmodel = OptModel_init
    /\ op2 = None
    /\ last = NoCall
    /\ ncalls = 0
    /\ issued = <<>>

----------------------------------------------------------------------------
(* SpecAlloc: a caller constructing cards *)

\* the (variable ids, multipliers) a caller passes to DLINK and DVPREL1
ListPairs == { <<<<BaseId>>, <<1>>>>, <<<<BaseId, BaseId + 1>>, <<1>>>>,
               <<<<>>, <<>>>>, <<<<BaseId>>, <<1, 2>>>> }

Constructed(R) == [R EXCEPT !.ret = IF Ok(R) THEN Some(R.new) ELSE None]

NewDRESP1 ==
    /\ ncalls < MaxCalls
    /\ Commit(Constructed(DRESP1(Cur, "R1", "STRESS", "ELEM", None, Some("atta"), None, Some(10))),
              "DRESP1", "", None)

NewDRESP2 ==
    /\ ncalls < MaxCalls
    /\ Commit(Constructed(DRESP2(Cur, "R2", BaseId, None)), "DRESP2", "", None)

NewDRESP3 ==
    /\ ncalls < MaxCalls
    /\ Commit(Constructed(DRESP3(Cur, "R3", "grp", "typ", "")), "DRESP3", "", None)

NewDESVAR ==
    /\ ncalls < MaxCalls
    /\ Commit(Constructed(DESVAR(Cur, "X", 2, 1, 3)), "DESVAR", "", None)

NewDVPREL1 ==
    /\ ncalls < MaxCalls
    /\ \E lp \in ListPairs :
        Commit(Constructed(DVPREL1(Cur, "PBAR", 1, "A", lp[1], lp[2], 0)), "DVPREL1", "", Some(lp))

NewDVPREL2 ==
    /\ ncalls < MaxCalls
    /\ Commit(Constructed(DVPREL2(Cur, "PBAR", 1, "A", BaseId)), "DVPREL2", "", None)

NewDLINK ==
    /\ ncalls < MaxCalls
    /\ \E lp \in ListPairs :
        Commit(Constructed(DLINK(Cur, BaseId, lp[1], lp[2], 0, 1)), "DLINK", "", Some(lp))

NewDEQATN ==
    /\ ncalls < MaxCalls
    /\ Commit(Constructed(DEQATN(Cur, "A(t,b) = t*b")), "DEQATN", "", None)

NewDTABLE ==
    /\ ncalls < MaxCalls
    /\ Commit(Constructed(DTABLE(Cur, EmptyDict)), "DTABLE", "", None)

InitAlloc == InitCommon /\ se = EmptyDict

NextAlloc ==
    \/ NewDRESP1 \/ NewDRESP2 \/ NewDRESP3 \/ NewDESVAR \/ NewDVPREL1
    \/ NewDVPREL2 \/ NewDLINK \/ NewDEQATN \/ NewDTABLE

SpecAlloc == InitAlloc /\ [][NextAlloc]_vars

IdsOf(cls) == SelectSeq(issued, LAMBDA p : p[1] = cls)

\* C3: within one card class the identifiers handed out start at 8000000 and
\* are strictly increasing in allocation order (hence pairwise distinct), also
\* across a construction that failed after taking its identifier.
C3_IdsStrictlyIncreasing ==
    \A c \in Classes :
        LET ids == IdsOf(c)
        IN  /\ ids # <<>> => ids[1][2] = BaseId
            /\ \A i, j \in DOMAIN ids : i < j => ids[i][2] < ids[j][2]

\* a failed DLINK / DVPREL1 construction took an identifier after an earlier
\* allocation of the same class
C3_Witness ==
    /\ last.op \in {"DLINK", "DVPREL1"}
    /\ last.exc = "AssertionError"
    /\ Len(IdsOf(last.op)) >= 2

\* C18: constructing a DLINK or a DVPREL1 whose variable-id list and
\* multiplier list differ in length, or are empty, fails with an error in the
\* constructor: the caller gets no object to register and no ledger or mapping
\* changes; with matching non-empty lists the object is returned.
C18_ListMismatchFailsFast ==
    [][ (ncalls' = ncalls + 1 /\ last'.op \in {"DLINK", "DVPREL1"})
        => LET ids == Get(last'.arg)[1]
               cs == Get(last'.arg)[2]
           IN  IF Len(ids) # Len(cs) \/ Len(ids) = 0
               THEN /\ last'.exc = "AssertionError"
                    /\ last'.ret = None
                    /\ se' = se
                    /\ optmodel' = optmodel
               ELSE /\ last'.exc = NoExc
                    /\ last'.ret # None
                    /\ Get(last'.ret).id = uid[last'.op] ]_vars

\* a DLINK with one variable id and two multipliers was refused
C18_Witness ==
    /\ last.op = "DLINK"
    /\ Len(Get(last.arg)[1]) = 1
    /\ Len(Get(last.arg)[2]) = 2
    /\ last.exc = "AssertionError"

----------------------------------------------------------------------------
(* SpecContrib: a caller building cards and contributing them through two   *)
(* structural elements of one model                                         *)

ContribSEs == {"s1", "s2"}

\* the responses some element holds, as a caller can pass them on
HeldResponses == UNION { {se[n].dresps[i] : i \in DOMAIN se[n].dresps} : n \in DOMAIN se }

OneSided == { <<None, Some(50)>>, <<Some(-50), None>> }

\* the (lb, ub) a caller can pass to add_constraint
BoundPairs == OneSided \cup { <<None, None>> }

CallAddDresp1(n) ==
    /\ ncalls < MaxCalls
    /\ LET R0 == DRESP1(Cur, "R1", "STRESS", "ELEM", None, Some("atta"), None, Some(10))
       IN  Commit(add_dresp(R0, n, R0.new), "add_dresp", n, Some(R0.new))

CallAddDresp2(n) ==
    /\ ncalls < MaxCalls
    /\ LET R0 == DRESP2(Cur, "R2", BaseId, None)
       IN  Commit(add_dresp(R0, n, R0.new), "add_dresp", n, Some(R0.new))

CallAddDresp3(n) ==
    /\ ncalls < MaxCalls
    /\ LET R0 == DRESP3(Cur, "R3", "grp", "typ", "")
       IN  Commit(add_dresp(R0, n, R0.new), "add_dresp", n, Some(R0.new))

CallAddDeqatn(n) ==
    /\ ncalls < MaxCalls
    /\ LET R0 == DEQATN(Cur, "A(t,b) = t*b")
       IN  Commit(add_deqatn(R0, n, R0.new), "add_deqatn", n, Some(R0.new))

CallAddDvar(n) ==
    /\ ncalls < MaxCalls
    /\ \E label \in {"STRBt", "STRBb"} :
        LET R0 == DESVAR(Cur, label, 2, 1, 3)
        IN  Commit(add_dvar(R0, n, R0.new), "add_dvar", n, Some(R0.new))

\* se.add_dvprel(DVPREL1(...)): a constructor that raises contributes nothing
CallAddDvprel1(n) ==
    /\ ncalls < MaxCalls
    /\ \E lp \in ListPairs :
        LET R0 == DVPREL1(Cur, "PBAR", 1, "A", lp[1], lp[2], 0)
        IN  Commit(add_dvprel(R0, n, R0.new), "add_dvprel", n,
                   IF Ok(R0) THEN Some(R0.new) ELSE None)

CallAddDtable(n) ==
    /\ ncalls < MaxCalls
    /\ \E key \in {STRb, STRE} :
        Commit(add_dtable(Cur, n, key, ncalls + 1), "add_dtable", n, Some(key))

CallAddConstraint(n) ==
    /\ ncalls < MaxCalls
    /\ \E dresp \in HeldResponses, b \in BoundPairs :
        Commit(add_constraint(Cur, n, 1, dresp, b[1], b[2]), "add_constraint", n, Some(dresp))

InitContrib == InitCommon /\ se = [n \in ContribSEs |-> SE_init("SE", n, <<10, 11, 12>>)]

NextContrib ==
    \/ \E n \in ContribSEs : CallAddConstraint(n)
    \/ \E n \in ContribSEs : CallAddDresp1(n)
    \/ \E n \in ContribSEs : CallAddDresp2(n)
    \/ \E n \in ContribSEs : CallAddDresp3(n)
    \/ \E n \in ContribSEs : CallAddDeqatn(n)
    \/ \E n \in ContribSEs : CallAddDvar(n)
    \/ \E n \in ContribSEs : CallAddDvprel1(n)
    \/ \E n \in ContribSEs : CallAddDtable(n)

SpecContrib == InitContrib /\ [][NextContrib]_vars

Range(f) == {f[x] : x \in DOMAIN f}

\* the entity is stored in mapping d under its own identifier
Under(d, e) == HasId(e) /\ e.id \in DOMAIN d /\ d[e.id] = e

\* every entity of the ledgers of element o is in the model om
LedgerInModel(o, om) ==
    /\ \A d \in Range(o.dresps) : Under(om.dresps, d)
    /\ \A d \in Range(o.deqatns) : Under(om.deqatns, d)
    /\ \A d \in Range(o.dvprels) : Under(om.dvprels, d)
    /\ \A d \in Range(o.dvars) : Under(om.dvars, d)
    /\ \A k \in DOMAIN o.dtables :
          /\ o.dtables[k][1] \in DOMAIN om.dtables
          /\ om.dtables[o.dtables[k][1]] = o.dtables[k][2]
    /\ \A c \in Range(o.dconstrs) : c \in Range(om.dconstrs)

\* C1: every entity held in an element's local ledger is also present in the
\* owning model under its identifier (resolved name for constants), every
\* constraint of an element's constraint list is in the model's constraint
\* mapping, and add_constraint completes without error.
C1_LedgersInModel ==
    /\ \A n \in DOMAIN se : LedgerInModel(se[n], optmodel)
    /\ last.op = "add_constraint" => last.exc = NoExc

RECURSIVE SumOver(_, _)
SumOver(f, D) ==
    IF D = {} THEN 0
    ELSE LET x == CHOOSE y \in D : TRUE IN f[x] + SumOver(f, D \ {x})

ResponsesAdded == SumOver([n \in DOMAIN se |-> Len(se[n].dresps)], DOMAIN se)

\* C2: every response ever passed to add_dresp is still retrievable from the
\* model's response mapping under its own identifier, and the mapping has as
\* many entries as responses were added.
C2_NoResponseLost ==
    /\ \A n \in DOMAIN se : \A d \in Range(se[n].dresps) : Under(optmodel.dresps, d)
    /\ Cardinality(DOMAIN optmodel.dresps) = ResponsesAdded

RegisterOps == {"add_dresp", "add_deqatn", "add_dvprel", "add_dvar"}

MappingOf(om, op) ==
    CASE op = "add_dresp" -> om.dresps
      [] op = "add_deqatn" -> om.deqatns
      [] op = "add_dvprel" -> om.dvprels
      [] op = "add_dvar" -> om.dvars

\* C8: registering an entity whose identifier is already present in the
\* model's mapping for its kind fails with an error and leaves the entry that
\* was there in place.
C8_DuplicateIdRejected ==
    [][ (/\ ncalls' = ncalls + 1
         /\ last'.op \in RegisterOps
         /\ last'.arg # None
         /\ Get(last'.arg).id \in DOMAIN MappingOf(optmodel, last'.op))
        => (/\ last'.exc # NoExc
            /\ MappingOf(optmodel', last'.op)[Get(last'.arg).id]
                 = MappingOf(optmodel, last'.op)[Get(last'.arg).id]) ]_vars

\* C16: add_dvar with a label the same element already owns fails at the
\* duplicate-label check and leaves the element's variable ledger and the
\* model's variable mapping unchanged; with a label the element does not own,
\* whether or not another element owns it, the variable is accepted.
C16_DuplicateLabelRejected ==
    [][ (ncalls' = ncalls + 1 /\ last'.op = "add_dvar")
        => LET n == last'.se
               dvar == Get(last'.arg)
           IN  IF dvar.label \in DOMAIN se[n].dvars
               THEN /\ last'.exc = "BareRaise"
                    /\ se' = se
                    /\ optmodel' = optmodel
               ELSE /\ last'.exc = NoExc
                    /\ se'[n].dvars = Put(se[n].dvars, dvar.label, dvar)
                    /\ optmodel'.dvars = Put(optmodel.dvars, dvar.id, dvar) ]_vars

\* a label both elements own was contributed again and rejected
C16_Witness ==
    /\ last.op = "add_dvar"
    /\ last.exc = "BareRaise"
    /\ \A n \in ContribSEs : Get(last.arg).label \in DOMAIN se[n].dvars

\* C19: every constraint in an element's ledger or in the model has at least
\* one of its two bounds set; a constraint with both bounds None cannot be
\* created.
C19_SomeBoundSet ==
    /\ \A n \in DOMAIN se : \A c \in Range(se[n].dconstrs) :
          c.lallow # None \/ c.uallow # None
    /\ \A c \in Range(optmodel.dconstrs) : c.lallow # None \/ c.uallow # None

----------------------------------------------------------------------------
(* SpecDtable: structural elements of one model declaring constants *)

DtableSEs == {"s1", "s2", "s3"}

ALPHA == <<"A", "L", "P", "H", "A">>
ALPHA0 == <<"A", "L", "P", "H", "A", "0">>
ALPHA000 == <<"A", "L", "P", "H", "A", "0", "0", "0">>
ALPHABETA == <<"A", "L", "P", "H", "A", "B", "E", "T", "A">>

DtableNames == {ALPHA, ALPHA0, ALPHA000, ALPHABETA}

\* the value of the k-th declaration is k, so that an overwrite shows
CallDeclare(n, key) ==
    /\ ncalls < MaxDecl
    /\ Commit(add_dtable(Cur, n, key, ncalls + 1), "add_dtable", n, Some(key))

InitDtable == InitCommon /\ se = [n \in DtableSEs |-> SE_init("SE", n, <<10, 11, 12>>)]

NextDtable == \E n \in DtableSEs, key \in DtableNames : CallDeclare(n, key)

SpecDtable == InitDtable /\ [][NextDtable]_vars

Declared == ncalls' = ncalls + 1 /\ last'.op = "add_dtable"

\* C5: whenever add_dtable succeeds, the name it returns was not a key of the
\* model's constant mapping before the call: no stored value is overwritten
\* and the mapping grows by exactly one entry.
C5_ResolvedNameIsFresh ==
    [][ (Declared /\ last'.exc = NoExc)
        => (/\ Get(last'.ret) \notin DOMAIN optmodel.dtables
            /\ \A k \in DOMAIN optmodel.dtables :
                  k \in DOMAIN optmodel'.dtables /\ optmodel'.dtables[k] = optmodel.dtables[k]
            /\ Cardinality(DOMAIN optmodel'.dtables)
                 = Cardinality(DOMAIN optmodel.dtables) + 1) ]_vars

\* the names earlier declarations of base name key resolved to
ResolvedFor(key) ==
    {key} \cup { se[n].dtables[key][1] : n \in {m \in DOMAIN se : key \in DOMAIN se[m].dtables} }

\* C6: declaring a constant under a base name shorter than 8 characters that
\* is already in the model returns a resolved name different from the base
\* name and from every name an earlier declaration of that base name got; the
\* earlier value stays retrievable under the base name and the new value is
\* retrievable under the returned name, whichever element declares.
C6_CollisionResolved ==
    [][ (/\ Declared
         /\ Len(Get(last'.arg)) < 8
         /\ Get(last'.arg) \in DOMAIN optmodel.dtables)
        => (/\ last'.exc = NoExc
            /\ last'.ret # None
            /\ Get(last'.ret) \notin ResolvedFor(Get(last'.arg))
            /\ optmodel'.dtables[Get(last'.arg)] = optmodel.dtables[Get(last'.arg)]
            /\ Get(last'.ret) \in DOMAIN optmodel'.dtables
            /\ optmodel'.dtables[Get(last'.ret)] = ncalls') ]_vars

\* C7: every key of the model's constant mapping has at most 8 characters.
C7_NamesAtMost8 == \A k \in DOMAIN optmodel.dtables : Len(k) <= 8

\* C17: add_dtable with a name of 8 or more characters that is already in the
\* model fails with the name-conflict error (ValueError) and stores nothing: the
\* constant mapping with its values, the collision counters and every
\* element's ledger are unchanged.
C17_LongNameConflict ==
    [][ (/\ Declared
         /\ Len(Get(last'.arg)) >= 8
         /\ Get(last'.arg) \in DOMAIN optmodel.dtables)
        => (/\ last'.exc = "ValueError"
            /\ last'.ret = None
            /\ optmodel' = optmodel
            /\ se' = se) ]_vars

\* a declaration of an 8-character name the model already holds was rejected
\* in a model whose collision counters are in use
C17_Witness ==
    /\ last.op = "add_dtable"
    /\ last.exc = "ValueError"
    /\ Len(Get(last.arg)) >= 8
    /\ Get(last.arg) \in DOMAIN optmodel.dtables
    /\ optmodel.dtable_prefixes # EmptyDict

----------------------------------------------------------------------------
(* Spec: one model with a flange, a panel and a shear clip; the caller       *)
(* resolves geometry and generates constraints in any order                  *)

Profiles == {"t", "T_B", "x"}

\* attributes the caller sets on a flange before assembly
WithSizing(o, profile, declared) ==
    [profile |-> profile, t |-> 2, t_lb |-> 1, t_ub |-> 3,
     b |-> 20, b_lb |-> 10, b_ub |-> 30] @@
    [o EXCEPT !.constraints = IF declared THEN Put(@, "buckling", 3) ELSE @]

Bar(eid, type, ptype, x) == Element(eid, type, 7, ptype, << <<x - 1, 0, 0>>, <<x + 1, 0, 0>> >>)

Quad(eid, x) ==
    Element(eid, "CQUAD4", 8, "PSHELL",
            << <<x - 1, -1, 0>>, <<x + 1, -1, 0>>, <<x + 1, 1, 0>>, <<x - 1, 1, 0>> >>)

\* the finite elements the surrounding model can hold for each feature
Geometries(n) ==
    CASE n = "flange" ->
            { <<Bar(10, "CBAR", "PBAR", 0), Bar(11, "CBAR", "PBAR", 2), Bar(12, "CBAR", "PBAR", 10)>>,
              <<Bar(10, "CROD", "PROD", 0), Bar(11, "CROD", "PROD", 2), Bar(12, "CROD", "PROD", 10)>> }
      [] n = "panel" -> { <<Quad(20, 0), Quad(21, 2)>> }
      [] n = "clip" -> { <<Bar(30, "CBAR", "PBAR", 0)>> }

ResolveGeometry(n) ==
    /\ ncalls < MaxCalls
    /\ se[n].elements = None
    /\ \E g \in Geometries(n) : se' = [se EXCEPT ![n].elements = Some(g)]
    /\ last' = [op |-> "resolve", se |-> n, exc |-> NoExc, ret |-> None, arg |-> None]
    /\ ncalls' = ncalls + 1
    /\ UNCHANGED <<uid, optmodel, op2, issued>>

CallCreateDvars(n) ==
    /\ ncalls < MaxCalls
    /\ Commit(create_dvars(Cur, n), "create_dvars", n, None)

CallConstrainStress(n) ==
    /\ ncalls < MaxCalls
    /\ \E Fy \in {50, -50} :
        Commit(constrain_stress(Cur, n, Fy), "constrain_stress", n, Some(Fy))

\* the allowables a caller passes: positive, negative and zero
Allowables == {50, -50, 0}

CallConstrainStressTension(n) ==
    /\ ncalls < MaxCalls
    /\ \E Fty \in Allowables :
        Commit(constrain_stress_tension(Cur, n, Fty), "constrain_stress_tension", n, Some(Fty))

CallConstrainStressCompression(n) ==
    /\ ncalls < MaxCalls
    /\ \E Fcy \in Allowables :
        Commit(constrain_stress_compression(Cur, n, Fcy), "constrain_stress_compression", n,
               Some(Fcy))

CallConstrainVonMises(n) ==
    /\ ncalls < MaxCalls
    /\ Commit(constrain_vonMises(Cur, n, 50), "constrain_vonMises", n, Some(50))

CallConstrainBuckling(n) ==
    /\ ncalls < MaxCalls
    /\ \E method \in {1, 2} :
        Commit(constrain_buckling(Cur, n, method, 1), "constrain_buckling", n, Some(method))

Init ==
    /\ InitCommon
    /\ \E profile \in Profiles, declared \in BOOLEAN :
        se = [n \in {"flange", "panel", "clip"} |->
                CASE n = "flange" ->
                        WithSizing(SE_init("InnerFlange", n, <<10, 11, 12>>), profile, declared)
                  [] n = "panel" -> SE_init("Panel", n, <<20, 21>>)
                  [] n = "clip" -> SE_init("ShearClipSkin", n, <<30>>)]

Next ==
    \/ \E n \in {"flange", "panel", "clip"} : ResolveGeometry(n)
    \/ CallCreateDvars("flange")
    \/ \E n \in {"flange", "clip"} : CallConstrainStress(n)
    \/ \E n \in {"flange", "clip"} : CallConstrainStressTension(n)
    \/ \E n \in {"flange", "clip"} : CallConstrainStressCompression(n)
    \/ CallConstrainVonMises("panel")
    \/ CallConstrainBuckling("flange")

Spec == Init /\ [][Next]_vars

ConstrainOps == {"constrain_stress", "constrain_stress_tension",
                 "constrain_stress_compression", "constrain_vonMises",
                 "constrain_buckling"}

\* the ledgers of element o
Ledgers(o) == <<o.dresps, o.dvars, o.dvprels, o.deqatns, o.dtables, o.dlinks, o.dconstrs>>

\* C9: a constrain_* call on an element whose geometry is unresolved
\* (elements is None) fails with an error and registers nothing: the model's
\* mappings and every element's ledgers are the same after the call as before.
C9_UnresolvedRegistersNothing ==
    [][ (/\ ncalls' = ncalls + 1
         /\ last'.op \in ConstrainOps
         /\ se[last'.se].elements = None)
        => (/\ last'.exc # NoExc
            /\ optmodel' = optmodel
            /\ \A n \in DOMAIN se : Ledgers(se'[n]) = Ledgers(se[n])) ]_vars

\* a constrain_* call has failed on an element without geometry, in a model
\* that already holds entities of another element
C9_Witness ==
    /\ last.op \in ConstrainOps
    /\ last.se \in {"flange", "panel"}
    /\ se[last.se].elements = None
    /\ last.exc # NoExc
    /\ optmodel.dresps # EmptyDict

\* the call just made: operation op on an element whose geometry is resolved
CalledResolved(op) ==
    /\ ncalls' = ncalls + 1
    /\ last'.op = op
    /\ se[last'.se].elements # None

AllOfType(o, type) == \A e \in Range(Get(o.elements)) : e.type = type

\* the last entry of a list
Newest(q) == q[Len(q)]

\* C11: on a CBAR feature with resolved geometry constrain_stress(Fy) completes
\* and registers exactly one element response targeting the central element and
\* exactly one constraint on it, in the element and in the model: upper bound
\* Fy and no lower bound under the 'stress_tension' set when Fy > 0, lower bound
\* Fy and no upper bound under the 'stress_compression' set when Fy < 0.
C11_StressConstraintRegistered ==
    [][ (CalledResolved("constrain_stress") /\ AllOfType(se[last'.se], "CBAR"))
        => LET n == last'.se
               Fy == Get(last'.arg)
               kind == IF Fy > 0 THEN "stress_tension" ELSE "stress_compression"
               r == Newest(se'[n].dresps)
               c == Newest(se'[n].dconstrs)
           IN  /\ last'.exc = NoExc
               /\ Len(se'[n].dresps) = Len(se[n].dresps) + 1
               /\ r.cls = "DRESP1" /\ r.ptype = "ELEM"
               /\ r.atti = Get(get_central_element(se[n])).eid
               /\ Under(optmodel'.dresps, r)
               /\ Len(se'[n].dconstrs) = Len(se[n].dconstrs) + 1
               /\ c.rid = r.id
               /\ c.dcid = se[n].constraints[kind]
               /\ Fy > 0 => (c.uallow = Some(Fy) /\ c.lallow = None)
               /\ Fy < 0 => (c.lallow = Some(Fy) /\ c.uallow = None)
               /\ Cardinality(DOMAIN optmodel'.dconstrs)
                    = Cardinality(DOMAIN optmodel.dconstrs) + 1
               /\ c \in Range(optmodel'.dconstrs) ]_vars

\* the flange is one constrain_buckling is implemented for: CBAR elements,
\* profile 't' or 't_b', and a declared 'buckling' constraint set
BucklingSupported(o) ==
    /\ AllOfType(o, "CBAR")
    /\ lower(o.profile) \in {"t", "t_b"}
    /\ "buckling" \in DOMAIN o.constraints

\* C12: on such a flange constrain_buckling(method=1, ms) succeeds without the
\* caller having declared anything, and registers exactly one equation, one
\* axial-stress element response targeting the central element, one equation
\* response referencing both, and one constraint on the equation response with
\* lower bound ms and no upper bound.
C12_BucklingConstraintRegistered ==
    [][ (/\ CalledResolved("constrain_buckling")
         /\ Get(last'.arg) = 1
         /\ BucklingSupported(se[last'.se]))
        => LET n == last'.se
               o == se'[n]
               pre == IF se[n].dvars_created THEN se[n]
                      ELSE create_dvars(Cur, n).se[n]
               fa == o.dresps[Len(o.dresps) - 1]
               r2 == Newest(o.dresps)
               q == Newest(o.deqatns)
               c == Newest(o.dconstrs)
           IN  /\ last'.exc = NoExc
               /\ Len(o.deqatns) = Len(pre.deqatns) + 1
               /\ q.eq = EqBuckling
               /\ Len(o.dresps) = Len(se[n].dresps) + 2
               /\ fa.cls = "DRESP1" /\ fa.atti = Get(get_central_element(se[n])).eid
               /\ r2.cls = "DRESP2" /\ r2.eqid = q.id /\ r2.dresp1 = <<fa.id>>
               /\ Len(o.dconstrs) = Len(se[n].dconstrs) + 1
               /\ c.rid = r2.id /\ c.lallow = Some(1) /\ c.uallow = None ]_vars

\* a call that runs create_dvars on a flange that has run it before
RepeatedCreation ==
    /\ ncalls' = ncalls + 1
    /\ last'.op \in ConstrainOps \cup {"create_dvars"}
    /\ se[last'.se].cls \in FlangeClasses
    /\ se[last'.se].dvars_created

\* the equations of mapping or list d that a property relation of o references
SectionEquations(o, d) ==
    { q \in Range(d) : \E r \in Range(o.dvprels) : r.eqid = q.id }

\* what design-variable creation registers for element o, locally and in om
Sizing(o, om) ==
    <<o.dvars, o.dtables, o.dvprels, SectionEquations(o, o.deqatns),
      om.dvars, om.dtables, om.dtable_prefixes, om.dvprels,
      SectionEquations(o, om.deqatns)>>

\* C14 as stated: a repeated create_dvars, or constrain_* call that triggers
\* it, leaves the design variables, constants, equations and property
\* relations of the element's ledger and of the model exactly as they were.
C14_RepeatLeavesLedgers ==
    [][ RepeatedCreation
        => LET n == last'.se
           IN  /\ Sizing(se'[n], optmodel') = Sizing(se[n], optmodel)
               /\ se'[n].deqatns = se[n].deqatns
               /\ optmodel'.deqatns = optmodel.deqatns
               /\ last'.exc # "BareRaise" ]_vars

\* C14, amended: a repeated create_dvars, or constrain_* call that triggers it,
\* creates no second set and raises no duplicate-label error: the design
\* variables, constants and property relations, and the equations those
\* relations reference, are unchanged in the element's ledger and in the model.
\* (The equation constrain_buckling registers for its own response is new on
\* every call.)
C14_DvarCreationIdempotent ==
    [][ RepeatedCreation
        => LET n == last'.se
           IN  /\ Sizing(se'[n], optmodel') = Sizing(se[n], optmodel)
               /\ last'.exc # "BareRaise" ]_vars

\* constrain_buckling has run twice on a flange whose section relations exist
C14_Witness ==
    /\ last.op = "constrain_buckling"
    /\ se["flange"].dvars_created
    /\ Len(se["flange"].dvprels) = 4
    /\ Cardinality({i \in DOMAIN se["flange"].deqatns :
                       se["flange"].deqatns[i].eq = EqBuckling}) = 2

\* the call just made is one the code has no implementation for: the
\* property type or the profile for a first create_dvars, the method, the
\* profile or the element type for constrain_buckling, the element type for
\* constrain_stress
UnsupportedCall ==
    LET o == se[last'.se]
        e0 == Get(o.elements)[1]
        profiled == lower(o.profile) \in {"t", "t_b"}
    IN  /\ ncalls' = ncalls + 1
        /\ o.cls \in FlangeClasses
        /\ o.elements # None
        /\ \/ /\ last'.op = "create_dvars"
              /\ ~o.dvars_created
              /\ ~profiled \/ e0.pid.type # "PBAR"
           \/ /\ last'.op = "constrain_buckling"
              /\ Get(last'.arg) # 1 \/ ~profiled \/ e0.type # "CBAR"
           \/ /\ last'.op = "constrain_stress"
              /\ e0.type # "CBAR"

\* C15: such a call fails with the not-supported error (NotImplementedError);
\* it never returns normally having generated nothing.
C15_UnsupportedRejected ==
    [][ UnsupportedCall => last'.exc = "NotImplementedError" ]_vars

----------------------------------------------------------------------------
(* SpecForces: results attached in either layout, then read by the features *)

\* the elements of each type the results hold, in the order the results list them
BarIds == <<10, 11, 12, 13>>
QuadIds == <<20, 21, 22>>
TriaIds == <<40, 41>>
AllIds == Range(BarIds) \cup Range(QuadIds) \cup Range(TriaIds)

SubcaseLists == { <<1>>, <<1, 2>> }

\* the underlying force values: one amplitude per element
DataSets == { [e \in AllIds |-> e], [e \in AllIds |-> 1] }

\* the value of component c of element e in load case sc
F(V, e, c, sc) == V[e] * 100 + c * 10 + sc

\* op2.cbar_force[subcase] of the object-map layout: attribute -> {eid: value}
BarObject(V, sc) ==
    [bendingMomentA |-> [e \in Range(BarIds) |-> <<F(V, e, 0, sc), F(V, e, 1, sc)>>],
     bendingMomentB |-> [e \in Range(BarIds) |-> <<F(V, e, 2, sc), F(V, e, 3, sc)>>],
     shear |-> [e \in Range(BarIds) |-> <<F(V, e, 4, sc), F(V, e, 5, sc)>>],
     axial |-> [e \in Range(BarIds) |-> F(V, e, 6, sc)],
     torque |-> [e \in Range(BarIds) |-> F(V, e, 7, sc)]]

\* op2.cquad4_force[subcase] / op2.ctria3_force[subcase] of the object-map layout
PlateObject(V, ids, sc) ==
    [mx |-> [e \in Range(ids) |-> F(V, e, 0, sc)],
     my |-> [e \in Range(ids) |-> F(V, e, 1, sc)],
     mxy |-> [e \in Range(ids) |-> F(V, e, 2, sc)],
     bmx |-> [e \in Range(ids) |-> F(V, e, 3, sc)],
     bmy |-> [e \in Range(ids) |-> F(V, e, 4, sc)],
     bmxy |-> [e \in Range(ids) |-> F(V, e, 5, sc)],
     tx |-> [e \in Range(ids) |-> F(V, e, 6, sc)],
     ty |-> [e \in Range(ids) |-> F(V, e, 7, sc)]]

\* a table of the vectorized layout: .element and .data[increment, element, component],
\* the final increment last
ArrayObject(V, ids, sc) ==
    [element |-> ids,
     data |-> << [r \in DOMAIN ids |-> [c \in 1..NumVectors |-> 0]],
                 [r \in DOMAIN ids |-> [c \in 1..NumVectors |-> F(V, ids[r], c - 1, sc)]] >>]

\* model.op2 describing V over the load cases subcases, in the given layout
Results(V, subcases, vectorized) ==
    [is_vectorized |-> vectorized,
     subcases |-> subcases,
     cbar_force |-> [sc \in Range(subcases) |->
                        IF vectorized THEN ArrayObject(V, BarIds, sc) ELSE BarObject(V, sc)],
     cquad4_force |-> [sc \in Range(subcases) |->
                          IF vectorized THEN ArrayObject(V, QuadIds, sc)
                          ELSE PlateObject(V, QuadIds, sc)],
     ctria3_force |-> [sc \in Range(subcases) |->
                          IF vectorized THEN ArrayObject(V, TriaIds, sc)
                          ELSE PlateObject(V, TriaIds, sc)]]

\* the element-id lists the features are built with
FlangeEids == { <<10, 11, 12>>, <<12, 10, 11>>, <<11, 10>>, <<11>> }
PanelEids == { <<20, 21, 40>>, <<40, 21, 20>>, <<21, 40>>, <<22>> }

\* model.op2 = results
LoadResults(V, subcases, vectorized) ==
    /\ op2 = None
    /\ op2' = Some(Results(V, subcases, vectorized))
    /\ last' = [NoCall EXCEPT !.op = "op2"]
    /\ UNCHANGED <<uid, optmodel, se, ncalls, issued>>

\* se.read_forces()
CallReadForces(n) ==
    /\ ncalls < MaxReads
    /\ Commit(read_forces(Cur, n), "read_forces", n, None)

InitForces ==
    /\ InitCommon
    /\ \E fe \in FlangeEids, pe \in PanelEids :
        se = [n \in {"flange", "panel"} |->
                IF n = "flange" THEN SE_init("InnerFlange", n, fe)
                ELSE SE_init("Panel", n, pe)]

NextForces ==
    \/ \E V \in DataSets, subcases \in SubcaseLists, vectorized \in BOOLEAN :
          LoadResults(V, subcases, vectorized)
    \/ \E n \in {"flange", "panel"} : CallReadForces(n)

SpecForces == InitForces /\ [][NextForces]_vars

\* the array the specification describes: row j of component c holds the values of eids[j]
Expected(eids, V, subcases) ==
    [c \in 0..(NumVectors - 1) |-> [j \in DOMAIN eids |->
        [i \in DOMAIN subcases |-> F(V, eids[j], c, subcases[i])]]]

\* what read_forces leaves on feature n when the same data is attached in a given layout
ReadUnder(n, V, subcases, vectorized) ==
    read_forces([Cur EXCEPT !.op2 = Some(Results(V, subcases, vectorized))], n)

\* C4: after read_forces on a feature, its forces are the array whose row j holds the
\* values of the feature's j-th element id, and reading the same data in the other
\* layout gives that same array without raising.
C4_LayoutsAgree ==
    \A V \in DataSets, subcases \in SubcaseLists, vectorized \in BOOLEAN :
        (/\ last.op = "read_forces"
         /\ op2 = Some(Results(V, subcases, vectorized)))
        => LET other == ReadUnder(last.se, V, subcases, ~vectorized)
           IN  /\ last.exc = NoExc
               /\ se[last.se].forces = Some(Expected(se[last.se].eids, V, subcases))
               /\ other.exc = NoExc
               /\ other.se[last.se].forces = se[last.se].forces

NoViews(o) == \A v \in DOMAIN o.views : o.views[v] = None

\* C10: with no results attached, read_forces on a line-like and on a shell-like
\* feature completes without raising and leaves forces and every force view None.
C10_NoResultsIsNoOp ==
    (last.op = "read_forces" /\ op2 = None)
    => /\ last.exc = NoExc
       /\ \A n \in DOMAIN se : se[n].forces = None /\ NoViews(se[n])

----------------------------------------------------------------------------
(* SpecCentral: a feature whose geometry is resolved to any list of elements *)
(* and then asked for its central element                                    *)

\* a three-node element with centroid (x, 1, 1)
Tria(eid, x) ==
    Element(eid, "CTRIA3", 9, "PSHELL", << <<x - 1, 0, 0>>, <<x + 2, 0, 0>>, <<x - 1, 3, 3>> >>)

\* the elements the surrounding model holds
ElementPool == { Bar(100, "CBAR", "PBAR", 0), Bar(101, "CBAR", "PBAR", 2),
                 Bar(102, "CBAR", "PBAR", 10), Quad(103, 1), Tria(104, 1) }

\* the non-empty lists of up to MaxElems distinct elements of the pool
ElementLists ==
    UNION { { q \in [1..k -> ElementPool] : \A i, j \in 1..k : i # j => q[i] # q[j] }
            : k \in 1..MaxElems }

ResolveCentral ==
    /\ se["f"].elements = None
    /\ \E g \in ElementLists : se' = [se EXCEPT !["f"].elements = Some(g)]
    /\ last' = [NoCall EXCEPT !.op = "resolve", !.se = "f"]
    /\ UNCHANGED <<uid, optmodel, op2, ncalls, issued>>

\* se.get_central_element()
CallGetCentralElement ==
    /\ ncalls < MaxCalls
    /\ Commit([Cur EXCEPT !.ret = get_central_element(se["f"])], "get_central_element", "f", None)

InitCentral == InitCommon /\ se = [n \in {"f"} |-> SE_init("SE", n, <<100, 101, 102>>)]

NextCentral == ResolveCentral \/ CallGetCentralElement

SpecCentral == InitCentral /\ [][NextCentral]_vars

\* 12 times the a-th coordinate of the centroid of e (12 is a multiple of
\* every node count in use)
Centroid12(e, a) == (12 * SeqSum([i \in DOMAIN e.nodes |-> e.nodes[i][a]])) \div Len(e.nodes)

\* the squared distance of the centroid of els[i] to the mean of all
\* centroids, times (12 * Len(els))^2
DistToMean(els, i) ==
    SeqSum([a \in Axes |->
        LET d == Len(els) * Centroid12(els[i], a)
                 - SeqSum([j \in DOMAIN els |-> Centroid12(els[j], a)])
        IN  d * d])

\* C13: get_central_element returns None while geometry is unresolved;
\* otherwise it returns, without failing, the element whose centroid is at
\* minimum squared distance from the mean of all centroids, and the first such
\* element of the list when several attain the minimum.
C13_CentralElement ==
    last.op = "get_central_element"
    => /\ last.exc = NoExc
       /\ se["f"].elements = None => last.ret = None
       /\ se["f"].elements # None =>
            LET els == Get(se["f"].elements)
            IN  \E i \in DOMAIN els :
                  /\ last.ret = Some(els[i])
                  /\ \A j \in DOMAIN els : DistToMean(els, i) <= DistToMean(els, j)
                  /\ \A j \in DOMAIN els : j < i => DistToMean(els, j) > DistToMean(els, i)

\* the central element was returned for a list in which a later element is
\* just as close to the mean
C13_Witness ==
    /\ last.op = "get_central_element"
    /\ se["f"].elements # None
    /\ LET els == Get(se["f"].elements)
       IN  /\ last.ret = Some(els[1])
           /\ \E j \in DOMAIN els : j > 1 /\ DistToMean(els, j) = DistToMean(els, 1)

----------------------------------------------------------------------------
(* SpecBuckling: a flange whose caller declares, one by one, the variables   *)
(* and constants constrain_buckling reads, with create_dvars and             *)
(* constrain_buckling called at any point                                    *)

STRZt == "STRZt"
STRZb == "STRZb"
STRZh == "STRZh"

\* what the caller declares for a profile, in the order of declaration:
\* <<"dvar", label>> or <<"dtable", key>>
BucklingInputs(profile) ==
    IF lower(profile) = "t"
    THEN << <<"dvar", STRZt>>, <<"dvar", STRZb>>,
            <<"dtable", STRh>>, <<"dtable", STRE>>, <<"dtable", STRnu>> >>
    ELSE << <<"dvar", STRZt>>, <<"dvar", STRZb>>, <<"dvar", STRZh>>,
            <<"dtable", STRE>>, <<"dtable", STRnu>> >>

IsDeclared(o, item) ==
    IF item[1] = "dvar" THEN item[2] \in DOMAIN o.dvars ELSE item[2] \in DOMAIN o.dtables

ResolveFlange ==
    /\ se["flange"].elements = None
    /\ se' = [se EXCEPT !["flange"].elements =
                 Some(<<Bar(10, "CBAR", "PBAR", 0), Bar(11, "CBAR", "PBAR", 2),
                        Bar(12, "CBAR", "PBAR", 10)>>)]
    /\ last' = [NoCall EXCEPT !.op = "resolve", !.se = "flange"]
    /\ UNCHANGED <<uid, optmodel, op2, ncalls, issued>>

\* se.add_dvar(DESVAR(label, ...)) or se.add_dtable(key, value) for the first
\* input not declared yet
DeclareNextInput ==
    /\ ncalls < MaxSteps
    /\ LET o == se["flange"]
           script == BucklingInputs(o.profile)
           pending == {i \in DOMAIN script : ~IsDeclared(o, script[i])}
       IN  /\ pending # {}
           /\ LET item == script[CHOOSE i \in pending : \A j \in pending : i <= j]
                  R0 == DESVAR(Cur, item[2], 2, 1, 3)
              IN  IF item[1] = "dvar"
                  THEN Commit(add_dvar(R0, "flange", R0.new), "add_dvar", "flange", Some(R0.new))
                  ELSE Commit(add_dtable(Cur, "flange", item[2], 1), "add_dtable", "flange",
                              Some(item[2]))

StepCreateDvars ==
    /\ ncalls < MaxSteps
    /\ Commit(create_dvars(Cur, "flange"), "create_dvars", "flange", None)

StepConstrainBuckling ==
    /\ ncalls < MaxSteps
    /\ Commit(constrain_buckling(Cur, "flange", 1, 1), "constrain_buckling", "flange", Some(1))

InitBuckling ==
    /\ InitCommon
    /\ \E profile \in {"t", "T_B"} :
        se = [n \in {"flange"} |->
                WithSizing(SE_init("InnerFlange", n, <<10, 11, 12>>), profile, TRUE)]

NextBuckling ==
    \/ ResolveFlange
    \/ DeclareNextInput
    \/ StepCreateDvars
    \/ StepConstrainBuckling

SpecBuckling == InitBuckling /\ [][NextBuckling]_vars

\* the head `name(p1,...,pk)` of the text of each equation in use
Header(eq) ==
    CASE eq = EqA -> <<"A", "(", "t", ",", "b", ")">>
      [] eq = EqI1 -> <<"I", "1", "(", "t", ",", "b", ")">>
      [] eq = EqI2 -> <<"I", "2", "(", "t", ",", "b", ")">>
      [] eq = EqJ -> <<"I", "1", "(", "t", ",", "b", ")">>
      [] eq = EqBuckling ->
            <<"b", "f", "(", "d", "i", "m", "1", ",", "d", "i", "m", "3", ",",
              "d", "i", "m", "2", ",", "E", ",", "n", "u", ",", "F", "A", ")">>

\* s.index(c), 1-based
IndexOf(s, c) == CHOOSE i \in DOMAIN s : s[i] = c /\ \A j \in 1..(i - 1) : s[j] # c

RECURSIVE Split(_, _)
\* s.split(c)
Split(s, c) ==
    IF \A i \in DOMAIN s : s[i] # c THEN <<s>>
    ELSE <<SubSeq(s, 1, IndexOf(s, c) - 1)>> \o Split(SubSeq(s, IndexOf(s, c) + 1, Len(s)), c)

\* the parameter names an equation head declares, in order
DeclaredParams(h) == Split(SubSeq(h, IndexOf(h, "(") + 1, IndexOf(h, ")") - 1), ",")

\* the equation parameter a design variable stands for, by its label
VarParam(label) ==
    CASE label = "STRBt" -> <<"t">>
      [] label = "STRBb" -> <<"b">>
      [] label = STRZb -> <<"d", "i", "m", "1">>
      [] label = STRZt -> <<"d", "i", "m", "3">>
      [] label = STRZh -> <<"d", "i", "m", "2">>

\* the equation parameter a constant stands for, by its declared name
ConstParam(key) ==
    CASE key = STRb -> <<"b">>
      [] key = STRh -> <<"d", "i", "m", "2">>
      [] key = STRE -> <<"E">>
      [] key = STRnu -> <<"n", "u">>

\* the parameters the argument lists of relation or response r of element o
\* stand for: design variables, then constants, then element responses
SuppliedParams(o, r) ==
    LET labelOf(id) == CHOOSE l \in DOMAIN o.dvars : o.dvars[l].id = id
        nameOf(key) == CHOOSE k \in DOMAIN o.dtables : o.dtables[k][1] = key
    IN  [i \in DOMAIN r.dvars |-> VarParam(labelOf(r.dvars[i]))]
        \o [i \in DOMAIN r.dtable |-> ConstParam(nameOf(r.dtable[i]))]
        \o (IF "dresp1" \in DOMAIN r THEN [i \in DOMAIN r.dresp1 |-> <<"F", "A">>] ELSE <<>>)

\* the parameters the equation with identifier eqid of element o declares
ParamsOf(o, eqid) ==
    DeclaredParams(Header((CHOOSE q \in Range(o.deqatns) : q.id = eqid).eq))

----------------------------------------------------------------------------
(* Spec: the one-sided stress constraints                                    *)

\* C21: on a CBAR flange with resolved geometry constrain_stress_tension(Fty)
\* adds, for every Fty (positive, negative or zero), one constraint under the
\* 'stress_tension' set with upper bound |Fty| and no lower bound, and
\* constrain_stress_compression(Fcy) adds one constraint under the
\* 'stress_compression' set with lower bound -|Fcy| and no upper bound.
C21_OneSidedStressConstraint ==
    [][ (/\ ncalls' = ncalls + 1
         /\ last'.op \in {"constrain_stress_tension", "constrain_stress_compression"}
         /\ se[last'.se].cls \in FlangeClasses
         /\ se[last'.se].elements # None
         /\ AllOfType(se[last'.se], "CBAR"))
        => LET n == last'.se
               Fa == Get(last'.arg)
               tension == last'.op = "constrain_stress_tension"
               kind == IF tension THEN "stress_tension" ELSE "stress_compression"
               c == Newest(se'[n].dconstrs)
           IN  /\ Len(se'[n].dconstrs) = Len(se[n].dconstrs) + 1
               /\ c.dcid = se[n].constraints[kind]
               /\ tension => (c.uallow = Some(abs(Fa)) /\ c.lallow = None)
               /\ ~tension => (c.lallow = Some(-abs(Fa)) /\ c.uallow = None) ]_vars

----------------------------------------------------------------------------
(* Spec: design-variable creation after a failed attempt                     *)

\* an attempt to create the design variables of flange o has failed and its
\* cause is gone: the creation is marked as done and has registered nothing,
\* while the geometry is resolved with a PBAR property and the profile is one
\* create_dvars implements
RecoveredFromFailure(o) ==
    /\ o.dvars_created
    /\ DOMAIN o.dvars = {}
    /\ o.elements # None
    /\ Get(o.elements)[1].pid.type = "PBAR"
    /\ lower(o.profile) \in {"t", "t_b"}

\* C22: when an earlier create_dvars attempt on the flange failed (geometry
\* unresolved) and the cause has been fixed, the next create_dvars call
\* completes and registers the flange's design variables, constants, equations
\* and property relations, leaving the same ledgers as a call on a flange that
\* never failed.
C22_FailedAttemptDoesNotBlock ==
    [][ (/\ ncalls' = ncalls + 1
         /\ last'.op = "create_dvars"
         /\ RecoveredFromFailure(se[last'.se]))
        => LET n == last'.se
               neverFailed == create_dvars([Cur EXCEPT !.se[n].dvars_created = FALSE], n)
           IN  /\ last'.exc = NoExc
               /\ "STRBt" \in DOMAIN se'[n].dvars
               /\ Len(se'[n].dvprels) = 4
               /\ Ledgers(se'[n]) = Ledgers(neverFailed.se[n]) ]_vars

============================================================================
